---- MODULE Spec2Model ----
(***************************************************************************)
(* The user-account backend of src/main.py: signup, login, updateProfile   *)
(* and deleteProfile against one document collection and one upload        *)
(* directory.  Every handler is cut at its awaits on shared state (the     *)
(* collection): the code between two such awaits is one action.            *)
(***************************************************************************)
EXTENDS Integers, Sequences, FiniteSets, TLC

VARIABLES
    users,      \* users_coll: the documents, in insertion (natural) order
    uploads,    \* the files of UPLOAD_DIR: file name -> content
    nextId,     \* the number of ObjectIds insert_one has handed out
    req         \* per worker: the handler it is in, its locals, its last response

vars == <<users, uploads, nextId, req>>

-----------------------------------------------------------------------------
(* Bounds of the model *)

MaxIds == 2     \* inserts per behaviour (ObjectIds handed out)

Procs == {"w1", "w2"}   \* requests in flight at once (asyncio tasks)
SeqProc == "w1"         \* the one worker of the sequential specification

-----------------------------------------------------------------------------
(* Config and SignupModel *)

JWT_ALGO == "HS256"
UPLOAD_DIR == "uploads"

FirstNameMin == 2
FirstNameMax == 30
LastNameMin == 1
LastNameMax == 30
AgeMin == 1
AgeMax == 120
PasswordMin == 6
MobileNoMin == 10
MobileNoMax == 15

ModelFields ==
    {"firstName", "lastName", "age", "email", "password", "mobileNo", "profilePic"}

\* The decimal strings the model submits as age, with the int pydantic parses.
IntOfStr == [s \in {"0", "1", "120", "121"} |->
                CASE s = "0" -> 0 [] s = "1" -> 1 [] s = "120" -> 120 [] s = "121" -> 121]

\* EmailStr: the strings email_validator accepts, and its normalised form
\* (the domain is lower-cased).
ValidEmails == {"ann@x.io", "bob@x.io", "ann@X.IO"}
NormalizeEmail(e) == IF e = "ann@X.IO" THEN "ann@x.io" ELSE e

\* One field of SignupModel against its Field(...) constraints.
FieldOk(f, v) ==
    CASE f = "firstName" -> Len(v) >= FirstNameMin /\ Len(v) <= FirstNameMax
      [] f = "lastName" -> Len(v) >= LastNameMin /\ Len(v) <= LastNameMax
      [] f = "age" -> v \in DOMAIN IntOfStr /\ IntOfStr[v] >= AgeMin /\ IntOfStr[v] <= AgeMax
      [] f = "email" -> v \in ValidEmails
      [] f = "password" -> Len(v) >= PasswordMin
      [] f = "mobileNo" -> Len(v) >= MobileNoMin /\ Len(v) <= MobileNoMax
      [] f = "profilePic" -> TRUE

\* ve.errors(): one entry per missing or violated field (its loc).
ValidationErrors(data) ==
    {f \in ModelFields : f \notin DOMAIN data \/ ~FieldOk(f, data[f])}

\* valid.model_dump(): the seven fields, age as int, email normalised; keys
\* outside the model are ignored.
ModelDump(data) ==
    [firstName |-> data["firstName"], lastName |-> data["lastName"],
     age |-> IntOfStr[data["age"]], email |-> NormalizeEmail(data["email"]),
     password |-> data["password"], mobileNo |-> data["mobileNo"],
     profilePic |-> data["profilePic"]]

-----------------------------------------------------------------------------
(* bcrypt *)

Salts == {"s1", "s2"}           \* what bcrypt.gensalt() may return
HashPw(pw, salt) == "$2b$" \o salt \o "$" \o pw
Plaintexts == {"abc12", "secret1", "secret2"}
IsBcrypt(h) == \E pw \in Plaintexts, s \in Salts : h = HashPw(pw, s)
CheckPw(pw, h) == \E s \in Salts : h = HashPw(pw, s)

-----------------------------------------------------------------------------
(* Request bodies: a content type and the parts of form.items(), in order. *)

TextPart(k, v) == [key |-> k, isFile |-> FALSE, value |-> v, filename |-> "", content |-> ""]
FilePart(k, n, c) == [key |-> k, isFile |-> TRUE, value |-> "", filename |-> n, content |-> c]

NoData == [k \in {} |-> ""]
Put(d, k, v) == [j \in DOMAIN d \cup {k} |-> IF j = k THEN v ELSE d[j]]
Get(d, k) == IF k \in DOMAIN d THEN d[k] ELSE ""

\* os.path.join(UPLOAD_DIR, filename)
FilePath(filename) == UPLOAD_DIR \o "/" \o filename

\* open(file_path, "wb").write(file_bytes): creates or overwrites.
WriteFile(store, filename, content) ==
    [n \in DOMAIN store \cup {filename} |-> IF n = filename THEN content ELSE store[n]]

\* signup's loop over form.items() (lines 82-95): every file part is written
\* under its file name; open() on "uploads/" (an empty file name) raises and
\* the handler stops there.
RECURSIVE SignupNormalize(_, _, _)
SignupNormalize(parts, data, store) ==
    IF parts = <<>> THEN [data |-> data, store |-> store, raised |-> FALSE]
    ELSE LET part == Head(parts) IN
         IF part.isFile
         THEN IF part.filename = ""
              THEN [data |-> data, store |-> store, raised |-> TRUE]
              ELSE SignupNormalize(Tail(parts),
                                   Put(data, part.key, FilePath(part.filename)),
                                   WriteFile(store, part.filename, part.content))
         ELSE SignupNormalize(Tail(parts), Put(data, part.key, part.value), store)

\* update_profile's loop (lines 222-236): a file part with an empty file name
\* is skipped.
RECURSIVE UpdateNormalize(_, _, _)
UpdateNormalize(parts, data, store) ==
    IF parts = <<>> THEN [data |-> data, store |-> store, raised |-> FALSE]
    ELSE LET part == Head(parts) IN
         IF part.isFile
         THEN IF part.filename # ""
              THEN UpdateNormalize(Tail(parts),
                                   Put(data, part.key, FilePath(part.filename)),
                                   WriteFile(store, part.filename, part.content))
              ELSE UpdateNormalize(Tail(parts), data, store)
         ELSE UpdateNormalize(Tail(parts), Put(data, part.key, part.value), store)

\* request.json() / the text fields of a form as a key -> value mapping.
RECURSIVE TextData(_, _)
TextData(parts, data) ==
    IF parts = <<>> THEN data
    ELSE TextData(Tail(parts), Put(data, Head(parts).key, Head(parts).value))

IsJson(ctype) == ctype = "application/json"
IsMultipart(ctype) == ctype = "multipart/form-data"
IsUrlEncoded(ctype) == ctype = "application/x-www-form-urlencoded"

-----------------------------------------------------------------------------
(* users_coll *)

\* find_one({"email": email}): the position of the first match, 0 when none.
FindOne(coll, email) ==
    IF \E i \in 1..Len(coll) : coll[i].email = email
    THEN CHOOSE i \in 1..Len(coll) :
            /\ coll[i].email = email
            /\ \A j \in 1..(i - 1) : coll[j].email # email
    ELSE 0

\* insert_one(doc): the document gets a fresh _id and goes last.
InsertOne(coll, doc, id) ==
    Append(coll, [k \in DOMAIN doc \cup {"_id"} |-> IF k = "_id" THEN id ELSE doc[k]])

\* An update_one that sets every field of update_doc but the password.
UpdateOneKeepsPassword(coll, email, update_doc) ==
    LET i == FindOne(coll, email) IN
    IF i = 0 THEN coll
    ELSE [coll EXCEPT ![i] =
            [k \in DOMAIN coll[i] \cup DOMAIN update_doc |->
                IF k \in DOMAIN update_doc \ {"password"} THEN update_doc[k]
                ELSE coll[i][k]]]

\* update_one({"email": email}, {"$set": update_doc}): the first match gets
\* the fields of update_doc; no upsert.
UpdateOne(coll, email, update_doc) ==
    LET i == FindOne(coll, email) IN
    IF i = 0 THEN coll
    ELSE [coll EXCEPT ![i] =
            [k \in DOMAIN coll[i] \cup DOMAIN update_doc |->
                IF k \in DOMAIN update_doc THEN update_doc[k] ELSE coll[i][k]]]

\* delete_one({"email": email}): the first match is removed.
DeleteOne(coll, email) ==
    LET i == FindOne(coll, email) IN
    IF i = 0 THEN coll
    ELSE SubSeq(coll, 1, i - 1) \o SubSeq(coll, i + 1, Len(coll))

MatchedCount(coll, email) == IF FindOne(coll, email) = 0 THEN 0 ELSE 1

-----------------------------------------------------------------------------
(* Responses *)

Response(status, error, msg) ==
    [status |-> status, error |-> error, msg |-> msg, details |-> {},
     inserted_id |-> 0, data |-> <<>>, raised |-> FALSE]

NoResponse == Response("", "", "")
Failure(msg) == Response("failure", "", msg)
Success(msg) == Response("success", "", msg)
\* An exception no handler catches: the framework answers 500.
Raised == [Response("", "", "") EXCEPT !.raised = TRUE]

\* login's user object: the document without its password.
UserObject(user) == [k \in DOMAIN user \ {"password"} |-> user[k]]

\* jwt.encode(payload, JWT_SECRET, algorithm=JWT_ALGO); the expiry is not modelled.
Token(user) == [alg |-> JWT_ALGO, user_id |-> user["_id"], email |-> user.email]

-----------------------------------------------------------------------------
(* Workers.  A worker's record holds the locals of the handler it runs: data *)
(* is the body as normalised (before the merge), doc the document to write.  *)

\* A worker with no request: no locals, no response.
Idle == [pc |-> "idle", data |-> <<>>, existing_user |-> <<>>, doc |-> <<>>,
         email |-> "", skip_hash |-> FALSE, resp |-> NoResponse]

\* return {...}: the handler is over, its locals as they are, and its response
\* is on the way out.
Respond(p, resp) == req' = [req EXCEPT ![p].pc = "done", ![p].resp = resp]

\* The response is sent and the worker takes the next request.
Return(p) ==
    /\ req[p].pc = "done"
    /\ req' = [req EXCEPT ![p] = Idle]
    /\ UNCHANGED <<users, uploads, nextId>>

PendingInserts == Cardinality({q \in Procs : req[q].pc = "signup_insert"})

Init ==
    /\ users = <<>>
    /\ uploads = [n \in {} |-> ""]
    /\ nextId = 0
    /\ req = [p \in Procs |-> Idle]

-----------------------------------------------------------------------------
(* POST /signup *)

\* signup without line 113: the document keeps the submitted password.
SignupDocPlain(data, salt) == ModelDump(data)

\* Lines 107-113: the document to insert, its password hashed.
SignupDoc(data, salt) ==
    [ModelDump(data) EXCEPT !.password = HashPw(data["password"], salt)]

\* Lines 72-98: the body as a mapping; files are written on the way.
SignupBody(f, store) ==
    IF IsJson(f.ctype)
    THEN [data |-> TextData(f.parts, NoData), store |-> store, raised |-> FALSE]
    ELSE SignupNormalize(f.parts, NoData, store)

SignupSupported(ctype) == IsJson(ctype) \/ IsMultipart(ctype) \/ IsUrlEncoded(ctype)

\* Lines 72-113: everything up to the await on insert_one.
SignupReceive(p, f) ==
    /\ req[p].pc = "idle"
    /\ UNCHANGED <<users, nextId>>
    /\ IF ~SignupSupported(f.ctype)
       THEN /\ Respond(p, Response("", "Unsupported content type", ""))
            /\ UNCHANGED uploads
       ELSE LET body == SignupBody(f, uploads)
                errors == ValidationErrors(body.data)
            IN  /\ uploads' = body.store
                /\ IF body.raised
                   THEN Respond(p, Raised)
                   ELSE IF errors # {}
                   THEN Respond(p, [Response("", "Validation failed", "")
                                        EXCEPT !.details = errors])
                   ELSE /\ nextId + PendingInserts < MaxIds
                        /\ \E salt \in Salts :
                             req' = [req EXCEPT ![p] =
                                        [Idle EXCEPT
                                            !.pc = "signup_insert",
                                            !.doc = <<SignupDoc(body.data, salt)>>]]

\* Lines 115-117: insert_one and the answer.
SignupInsert(p) ==
    /\ req[p].pc = "signup_insert"
    /\ nextId' = nextId + 1
    /\ users' = InsertOne(users, req[p].doc[1], nextId')
    /\ Respond(p, [Response("", "", "Signup successful") EXCEPT !.inserted_id = nextId'])
    /\ UNCHANGED uploads

-----------------------------------------------------------------------------
(* POST /login *)

\* login without line 181: the user object keeps its password.
LoginResponseKeepsPassword(coll, email, password) ==
    LET i == FindOne(coll, email) IN
    IF email = "" \/ password = ""
    THEN Failure("No email or password provided")
    ELSE IF i = 0 THEN Failure("invalid username")
    ELSE IF Get(coll[i], "password") = "" THEN Failure("invalid password")
    ELSE IF ~IsBcrypt(coll[i].password) THEN Raised
    ELSE IF ~CheckPw(password, coll[i].password) THEN Failure("invalid password")
    ELSE [Success("") EXCEPT
            !.data = <<[token |-> Token(coll[i]), user |-> coll[i]]>>]

\* Lines 153-192, given what find_one sees.
LoginResponse(coll, email, password) ==
    LET i == FindOne(coll, email) IN
    IF email = "" \/ password = ""
    THEN Failure("No email or password provided")
    ELSE IF i = 0 THEN Failure("invalid username")
    ELSE IF Get(coll[i], "password") = "" THEN Failure("invalid password")
    ELSE IF ~IsBcrypt(coll[i].password) THEN Raised
    ELSE IF ~CheckPw(password, coll[i].password) THEN Failure("invalid password")
    ELSE [Success("") EXCEPT
            !.data = <<[token |-> Token(coll[i]), user |-> UserObject(coll[i])]>>]

\* Lines 141-192: the whole handler; its one await on the collection is find_one.
Login(p, f) ==
    /\ req[p].pc = "idle"
    /\ UNCHANGED <<users, uploads, nextId>>
    /\ IF ~IsMultipart(f.ctype)
       THEN Respond(p, Failure("invalid content-type"))
       ELSE LET form == TextData(f.parts, NoData) IN
            Respond(p, LoginResponse(users, Get(form, "email"), Get(form, "password")))

-----------------------------------------------------------------------------
(* PUT /updateProfile *)

\* Lines 213-241: the body is read and its files written; then the await on find_one.
UpdateReceive(p, f) ==
    /\ req[p].pc = "idle"
    /\ UNCHANGED <<users, nextId>>
    /\ IF ~IsMultipart(f.ctype)
       THEN /\ Respond(p, Failure("invalid content-type"))
            /\ UNCHANGED uploads
       ELSE LET body == UpdateNormalize(f.parts, NoData, uploads) IN
            /\ uploads' = body.store
            /\ IF Get(body.data, "email") = ""
               THEN Respond(p, Failure("email is required to update profile"))
               ELSE req' = [req EXCEPT ![p] =
                              [Idle EXCEPT
                                  !.pc = "update_find",
                                  !.data = <<body.data>>,
                                  !.email = body.data["email"]]]

\* Lines 248-250 without the test on data: the stored profilePic always wins.
MergeProfilePicAlways(data, existing_user) ==
    IF "profilePic" \in DOMAIN existing_user
    THEN Put(data, "profilePic", existing_user["profilePic"])
    ELSE data

\* Lines 248-250: keep the stored profilePic when the submission has none.
MergeProfilePic(data, existing_user) ==
    IF "profilePic" \notin DOMAIN data /\ "profilePic" \in DOMAIN existing_user
    THEN Put(data, "profilePic", existing_user["profilePic"])
    ELSE data

\* Line 254: not data.get("password")
SkipHash(data) == Get(data, "password") = ""

\* Lines 254-259: keep the stored password when the submission has none.
MergePassword(data, existing_user) ==
    IF SkipHash(data) THEN Put(data, "password", Get(existing_user, "password")) ELSE data

\* Lines 268-276 without the skip_hash branch: the password is always hashed.
UpdateDocRehash(data, existing_user, skip_hash, salt) ==
    [ModelDump(data) EXCEPT !.password = HashPw(data["password"], salt)]

\* Lines 268-276: the $set document.
UpdateDoc(data, existing_user, skip_hash, salt) ==
    [ModelDump(data) EXCEPT !.password =
        IF skip_hash THEN Get(existing_user, "password")
        ELSE HashPw(data["password"], salt)]

\* Lines 244-276: find_one, the merge, the validation and the hash; then the
\* await on update_one.
UpdateFind(p) ==
    /\ req[p].pc = "update_find"
    /\ UNCHANGED <<users, uploads, nextId>>
    /\ LET i == FindOne(users, req[p].email) IN
       IF i = 0 THEN Respond(p, Failure("user not found"))
       ELSE LET existing_user == users[i]
                skip_hash == SkipHash(MergeProfilePic(req[p].data[1], existing_user))
                data == MergePassword(MergeProfilePic(req[p].data[1], existing_user),
                                      existing_user)
                errors == ValidationErrors(data)
            IN  IF errors # {}
                THEN Respond(p, [Failure("Validation failed") EXCEPT !.details = errors])
                ELSE \E salt \in Salts :
                        req' = [req EXCEPT
                                  ![p].pc = "update_write",
                                  ![p].existing_user = <<existing_user>>,
                                  ![p].skip_hash = skip_hash,
                                  ![p].doc = <<UpdateDoc(data, existing_user,
                                                         skip_hash, salt)>>]

\* Lines 279-287: update_one and the answer.
UpdateWrite(p) ==
    /\ req[p].pc = "update_write"
    /\ users' = UpdateOne(users, req[p].email, req[p].doc[1])
    /\ Respond(p, IF MatchedCount(users, req[p].email) = 0
                  THEN Failure("user not found for update")
                  ELSE Success("Profile updated successfully"))
    /\ UNCHANGED <<uploads, nextId>>

-----------------------------------------------------------------------------
(* DELETE /deleteProfile *)

\* Lines 310-316: the email check and find_one; then the await on delete_one.
DeleteFind(p, email) ==
    /\ req[p].pc = "idle"
    /\ UNCHANGED <<users, uploads, nextId>>
    /\ req' = [req EXCEPT ![p] =
                IF email = ""
                THEN [Idle EXCEPT !.pc = "done", !.resp = Failure("email is required")]
                ELSE IF FindOne(users, email) = 0
                THEN [Idle EXCEPT !.pc = "done", !.email = email,
                                  !.resp = Failure("user not found")]
                ELSE [Idle EXCEPT !.pc = "delete_one", !.email = email]]

\* Lines 328-333: delete_one and the answer.
DeleteWrite(p) ==
    /\ req[p].pc = "delete_one"
    /\ users' = DeleteOne(users, req[p].email)
    /\ Respond(p, IF MatchedCount(users, req[p].email) = 0
                  THEN Failure("user not found")
                  ELSE Success("Profile deleted successfully"))
    /\ UNCHANGED <<uploads, nextId>>

-----------------------------------------------------------------------------
(* The requests the clients send *)

Form(ctype, parts) == [ctype |-> ctype, parts |-> parts]

Long30 == "abcdefghijklmnopqrstuvwxyzabcd"
Long31 == "abcdefghijklmnopqrstuvwxyzabcde"
Mobile9 == "012345678"
Mobile10 == "0123456789"
Mobile15 == "012345678901234"
Mobile16 == "0123456789012345"

\* The text fields other than profilePic, in the order the client's form has them.
Fields(t) ==
    <<TextPart("firstName", t.firstName), TextPart("lastName", t.lastName),
      TextPart("age", t.age), TextPart("email", t.email),
      TextPart("password", t.password), TextPart("mobileNo", t.mobileNo)>>

\* The same without a password field.
FieldsNoPassword(t) == SelectSeq(Fields(t), LAMBDA part : part.key # "password")

\* Field values at the lower edge of the constraints, in and out of bounds.
LowEdge ==
    [firstName : {"A", "Al"}, lastName : {"", "B"}, age : {"0", "1"},
     email : {"ann@x.io"}, password : {"abc12", "secret1"}, mobileNo : {Mobile9, Mobile10}]

\* Field values at the upper edge of the constraints, at least one out of bounds.
HighEdge ==
    {t \in [firstName : {Long30, Long31}, lastName : {Long30, Long31},
            age : {"120", "121"}, email : {"ann@x.io"}, password : {"secret1"},
            mobileNo : {Mobile15, Mobile16}] :
        t.firstName = Long31 \/ t.lastName = Long31 \/ t.age = "121"
            \/ t.mobileNo = Mobile16}

\* A profile within every bound.
Profile(email, password) ==
    [firstName |-> "Al", lastName |-> "B", age |-> "1", email |-> email,
     password |-> password, mobileNo |-> Mobile10]

\* What a body carries besides the text fields: nothing, profilePic as text,
\* an empty file input (file name ""), picked files, under one key or two.
Attachments ==
    {<<>>,
     <<TextPart("profilePic", "me.png")>>,
     <<FilePart("profilePic", "a.png", "c1")>>,
     <<FilePart("profilePic", "a.png", "c2")>>,
     <<FilePart("profilePic", "", "")>>,
     <<FilePart("resume", "a.png", "c1")>>,
     <<FilePart("resume", "", "")>>,
     <<FilePart("profilePic", "", ""), FilePart("resume", "a.png", "c1")>>,
     <<FilePart("resume", "a.png", "c2"), FilePart("profilePic", "", "")>>,
     <<FilePart("profilePic", "a.png", "c1"), FilePart("resume", "a.png", "c2")>>}

SignupRequests ==
    {Form("multipart/form-data", Fields(Profile(e, pw)) \o a) :
        e \in {"ann@x.io", "ann@X.IO"}, pw \in {"secret1", "secret2"},
        a \in Attachments}
    \cup {Form("multipart/form-data",
               Fields(Profile("bob@x.io", "secret1")) \o <<TextPart("profilePic", "me.png")>>)}
    \cup {Form("multipart/form-data", Fields(t) \o a) :
            t \in LowEdge,
            a \in {<<TextPart("profilePic", "me.png")>>, <<FilePart("profilePic", "", "")>>}}
    \cup {Form("multipart/form-data", Fields(t) \o <<FilePart("profilePic", "a.png", "c1")>>) :
            t \in HighEdge \cup {Profile("ann", "secret1"),
                                 [Profile("ann", "abc12") EXCEPT !.age = "x"]}}
    \cup {Form(ct, Fields(t) \o <<TextPart("profilePic", "me.png")>>) :
            ct \in {"application/json", "application/x-www-form-urlencoded", "text/plain"},
            t \in {Profile("ann@x.io", "secret1"), Profile("ann@x.io", "abc12"),
                   [Profile("bob@x.io", "secret2") EXCEPT !.age = "121"]}}

LoginRequests ==
    {Form(ct, <<TextPart("email", e), TextPart("password", pw)>>) :
        ct \in {"multipart/form-data"},
        e \in {"ann@x.io", "bob@x.io", "ann@X.IO", ""}, pw \in {"secret1", "secret2", ""}}
    \cup {Form("application/x-www-form-urlencoded",
               <<TextPart("email", "ann@x.io"), TextPart("password", "secret1")>>),
          Form("multipart/form-data", <<TextPart("email", "ann@x.io")>>)}

UpdateRequests ==
    {Form("multipart/form-data", Fields(Profile(e, pw)) \o a) :
        e \in {"ann@x.io"}, pw \in {"secret2", ""},
        a \in {<<>>, <<TextPart("profilePic", "me.png")>>,
               <<FilePart("profilePic", "a.png", "c1")>>,
               <<FilePart("profilePic", "", "")>>}}
    \cup {Form("multipart/form-data", FieldsNoPassword(Profile("ann@x.io", "")) \o a) :
            a \in {<<>>, <<FilePart("profilePic", "a.png", "c2")>>}}
    \cup {Form("multipart/form-data", Fields(Profile("bob@x.io", ""))),
          Form("multipart/form-data", Fields(Profile("ann@x.io", "abc12"))),
          Form("multipart/form-data",
               FieldsNoPassword([Profile("bob@x.io", "") EXCEPT !.age = "0"])
                 \o <<FilePart("resume", "a.png", "c1")>>),
          Form("multipart/form-data",
               Fields(Profile("", "secret2"))
                 \o <<FilePart("profilePic", "", ""), FilePart("resume", "a.png", "c2")>>),
          Form("multipart/form-data", Fields(Profile("ann@X.IO", "secret1"))),
          Form("application/json", Fields(Profile("ann@x.io", "secret2")))}

DeleteRequests == {"ann@x.io", "bob@x.io", "ann@X.IO", ""}

\* The lean sets the concurrent specification draws from: one email, so that
\* every request meets every other.
RaceSignupRequests ==
    {Form("multipart/form-data",
          Fields(Profile("ann@x.io", "secret1")) \o <<TextPart("profilePic", "me.png")>>),
     Form("multipart/form-data",
          Fields(Profile("ann@x.io", "secret2")) \o <<FilePart("profilePic", "a.png", "c1")>>),
     Form("multipart/form-data",
          Fields([Profile("ann@x.io", "secret1") EXCEPT !.age = "0"])
            \o <<FilePart("profilePic", "a.png", "c2")>>),
     Form("multipart/form-data",
          Fields(Profile("ann@x.io", "secret1")) \o <<FilePart("profilePic", "", "")>>),
     Form("text/plain", <<>>)}

RaceLoginRequests ==
    {Form("multipart/form-data",
          <<TextPart("email", "ann@x.io"), TextPart("password", "secret1")>>),
     Form("application/json",
          <<TextPart("email", "ann@x.io"), TextPart("password", "secret1")>>)}

RaceUpdateRequests ==
    {Form("multipart/form-data", Fields(Profile("ann@x.io", "secret2"))),
     Form("multipart/form-data", Fields(Profile("ann@x.io", ""))),
     Form("multipart/form-data",
          Fields(Profile("ann@x.io", "abc12")) \o <<FilePart("profilePic", "a.png", "c2")>>),
     Form("multipart/form-data",
          Fields(Profile("", "secret2")) \o <<FilePart("profilePic", "a.png", "c1")>>),
     Form("application/json", <<>>)}

RaceDeleteRequests == {"ann@x.io", ""}

-----------------------------------------------------------------------------
(* Specifications *)

\* Requests interleave at their awaits: any worker takes the next step.
Next ==
    \E p \in Procs :
        \/ \E f \in RaceSignupRequests : SignupReceive(p, f)
        \/ SignupInsert(p)
        \/ \E f \in RaceLoginRequests : Login(p, f)
        \/ \E f \in RaceUpdateRequests : UpdateReceive(p, f)
        \/ UpdateFind(p)
        \/ UpdateWrite(p)
        \/ \E e \in RaceDeleteRequests : DeleteFind(p, e)
        \/ DeleteWrite(p)
        \/ Return(p)

Spec == Init /\ [][Next]_vars

\* One request at a time, each run to its answer before the next arrives.
SeqNext ==
    \/ \E f \in SignupRequests : SignupReceive(SeqProc, f)
    \/ SignupInsert(SeqProc)
    \/ \E f \in LoginRequests : Login(SeqProc, f)
    \/ \E f \in UpdateRequests : UpdateReceive(SeqProc, f)
    \/ UpdateFind(SeqProc)
    \/ UpdateWrite(SeqProc)
    \/ \E e \in DeleteRequests : DeleteFind(SeqProc, e)
    \/ DeleteWrite(SeqProc)
    \/ Return(SeqProc)

SeqSpec == Init /\ [][SeqNext]_vars

-----------------------------------------------------------------------------
(* What the claims speak of *)

HasRecord(coll, email) == \E i \in 1..Len(coll) : coll[i].email = email

\* The document find_one, update_one and delete_one act on for an email.
Stored(coll, email) == coll[FindOne(coll, email)]

LoginSucceeds(coll, email, password) ==
    LoginResponse(coll, email, password).status = "success"

UpdateSucceeded(p) ==
    /\ req[p].pc = "update_write"
    /\ req'[p].pc = "done"
    /\ req'[p].resp = Success("Profile updated successfully")

DeleteSucceeded(p) ==
    /\ req[p].pc = "delete_one"
    /\ req'[p].pc = "done"
    /\ req'[p].resp = Success("Profile deleted successfully")

-----------------------------------------------------------------------------
\* C1: in every reachable state the password of every stored document is a
\* bcrypt hash and is none of the plaintexts (or the empty string) that
\* requests submit.
C1_StoredPasswordIsHash ==
    \A i \in 1..Len(users) :
        /\ IsBcrypt(users[i].password)
        /\ users[i].password \notin Plaintexts \cup {""}

\* C1 witness: an update that kept the stored hash has written a document.
C1_Witness ==
    \E p \in Procs :
        /\ req[p].pc = "done"
        /\ req[p].resp = Success("Profile updated successfully")
        /\ req[p].skip_hash
        /\ HasRecord(users, req[p].email)
        /\ Stored(users, req[p].email).password = req[p].doc[1].password

\* C2: the collection holds at most one document per email.
C2_EmailUnique ==
    \A i, j \in 1..Len(users) : users[i].email = users[j].email => i = j

\* C3: a delete that finds and removes a document for an email leaves a
\* collection on which every login for that email answers "invalid username";
\* a delete for an email with no document answers "user not found" and leaves
\* the collection as it was.
C3_DeleteThenNoLogin ==
    [][\A p \in Procs :
         /\ DeleteSucceeded(p) =>
               \A pw \in Plaintexts :
                   LoginResponse(users', req[p].email, pw) = Failure("invalid username")
         /\ \A e \in RaceDeleteRequests :
               (e # "" /\ ~HasRecord(users, e) /\ DeleteFind(p, e)) =>
                   (req'[p].resp = Failure("user not found") /\ users' = users)
         /\ (req[p].pc = "delete_one" /\ req'[p].pc = "done"
                /\ ~HasRecord(users, req[p].email)) =>
                   (req'[p].resp = Failure("user not found") /\ users' = users)
      ]_vars

\* The password field of a submission is absent or empty.
NoPassword(data) == "password" \notin DOMAIN data \/ data["password"] = ""

\* C4: a successful update whose password field is absent or empty leaves the
\* stored hash as it was, and every password that logged in before still does;
\* a successful update that submits a password q stores a hash that q logs in
\* with and that every other password fails on with "invalid password", and
\* the stored hash changes when q did not log in before.
C4_UpdatePassword ==
    [][\A p \in Procs :
         UpdateSucceeded(p) =>
            LET e == req[p].email
                submitted == req[p].data[1]
            IN  IF NoPassword(submitted)
                THEN /\ Stored(users', e).password = Stored(users, e).password
                     /\ \A pw \in Plaintexts :
                           LoginSucceeds(users, e, pw) => LoginSucceeds(users', e, pw)
                ELSE /\ LoginSucceeds(users', e, submitted["password"])
                     /\ \A pw \in Plaintexts \ {submitted["password"]} :
                           LoginResponse(users', e, pw) = Failure("invalid password")
                     /\ ~LoginSucceeds(users, e, submitted["password"]) =>
                           Stored(users', e).password # Stored(users, e).password
      ]_vars

\* C4 witness: an update has replaced the hash of secret1 by one of secret2.
C4_Witness ==
    \E p \in Procs :
        /\ req[p].pc = "done"
        /\ req[p].resp = Success("Profile updated successfully")
        /\ ~NoPassword(req[p].data[1])
        /\ req[p].data[1]["password"] = "secret2"
        /\ CheckPw("secret1", req[p].existing_user[1].password)
        /\ LoginSucceeds(users, req[p].email, "secret2")
        /\ LoginResponse(users, req[p].email, "secret1") = Failure("invalid password")

\* The paths of stored uploads; a submission supplies a new file when its
\* profilePic entry is one of them.
UploadPaths == {FilePath("a.png")}
NewPicFile(data) == "profilePic" \in DOMAIN data /\ data["profilePic"] \in UploadPaths

\* C5 as stated: a successful update that supplies no new file leaves the
\* stored profilePic as it was; one that supplies a new file sets profilePic
\* to the path of the newly stored upload.
C5_AsStated ==
    [][\A p \in Procs :
         UpdateSucceeded(p) =>
            LET e == req[p].email
                submitted == req[p].data[1]
            IN  IF ~NewPicFile(submitted)
                THEN Stored(users', e).profilePic = Stored(users, e).profilePic
                ELSE Stored(users', e).profilePic = submitted["profilePic"]
      ]_vars

\* C5 amended: a successful update whose submission has no profilePic entry
\* (no such field, or a file part with an empty file name, which the
\* normalisation drops) leaves the stored profilePic as it was; one whose
\* submission has a profilePic entry (the path of a new upload, or a text
\* value) sets the stored profilePic to that entry.
C5_ProfilePic ==
    [][\A p \in Procs :
         UpdateSucceeded(p) =>
            LET e == req[p].email
                submitted == req[p].data[1]
            IN  IF "profilePic" \notin DOMAIN submitted
                THEN Stored(users', e).profilePic = Stored(users, e).profilePic
                ELSE Stored(users', e).profilePic = submitted["profilePic"]
      ]_vars

\* C5 witness: an update without a profilePic entry has kept the stored upload
\* path while it changed the password.
C5_Witness ==
    \E p \in Procs :
        /\ req[p].pc = "done"
        /\ req[p].resp = Success("Profile updated successfully")
        /\ "profilePic" \notin DOMAIN req[p].data[1]
        /\ ~req[p].skip_hash
        /\ req[p].existing_user[1].profilePic = FilePath("a.png")
        /\ Stored(users, req[p].email).profilePic = FilePath("a.png")
        /\ Stored(users, req[p].email).password # req[p].existing_user[1].password

OutOfBounds(t) ==
    {k \in {"firstName", "lastName", "age", "password", "mobileNo"} \cap DOMAIN t :
        CASE k = "firstName" -> Len(t[k]) < FirstNameMin \/ Len(t[k]) > FirstNameMax
          [] k = "lastName" -> Len(t[k]) < LastNameMin \/ Len(t[k]) > LastNameMax
          [] k = "age" -> /\ t[k] \in DOMAIN IntOfStr
                          /\ (IntOfStr[t[k]] < AgeMin \/ IntOfStr[t[k]] > AgeMax)
          [] k = "password" -> Len(t[k]) < PasswordMin
          [] k = "mobileNo" -> Len(t[k]) < MobileNoMin \/ Len(t[k]) > MobileNoMax}

\* C7: a signup body (of a supported content type) with a field out of bounds
\* is answered "Validation failed" with every such field among the details,
\* and the collection is as before.
C7_SignupRejects ==
    [][\A p \in Procs : (req[p].pc = "idle" /\ req'[p].pc # "idle") =>
       \A f \in SignupRequests :
         LET t == TextData(f.parts, NoData) IN
         (SignupSupported(f.ctype) /\ OutOfBounds(t) # {} /\ SignupReceive(p, f)) =>
            /\ req'[p].pc = "done"
            /\ req'[p].resp.error = "Validation failed"
            /\ OutOfBounds(t) \subseteq req'[p].resp.details
            /\ users' = users
      ]_vars

\* C8: the update writes the document it built at its lookup: a submission
\* without a password gets the hash find_one returned, and update_one stores
\* that document's password whatever the collection holds by then.
C8_WriteOfLookup ==
    [][\A p \in Procs :
         /\ (req[p].pc = "update_find" /\ req'[p].pc = "update_write"
                /\ NoPassword(req[p].data[1])) =>
               req'[p].doc[1].password = Stored(users, req[p].email).password
         /\ UpdateSucceeded(p) =>
               Stored(users', req[p].email).password = req[p].doc[1].password
      ]_vars

\* C8 witness, the lost update: two updates of one email have both answered
\* success, one submitted a new password, the other none, and the stored hash
\* is the stale one the second wrote back: the new password does not log in.
C8_LostUpdate ==
    \E p, q \in Procs :
        /\ p # q
        /\ req[p].pc = "done" /\ req[q].pc = "done"
        /\ req[p].resp = Success("Profile updated successfully")
        /\ req[q].resp = Success("Profile updated successfully")
        /\ req[p].email = req[q].email
        /\ NoPassword(req[p].data[1])
        /\ ~NoPassword(req[q].data[1])
        /\ req[p].existing_user[1]["_id"] = req[q].existing_user[1]["_id"]
        /\ Stored(users, req[p].email).password = req[p].doc[1].password
        /\ Stored(users, req[p].email).password # req[q].doc[1].password
        /\ ~LoginSucceeds(users, req[q].email, req[q].data[1]["password"])

\* The document the update looked up is no longer in the collection.
LookedUpRemoved(p) ==
    \A i \in 1..Len(users) : users[i]["_id"] # req[p].existing_user[1]["_id"]

\* A delete for the email of p's update has just answered success, and its
\* worker has taken no other request since.
DeleteAnswered(p) ==
    \E q \in Procs \ {p} :
        /\ req[q].pc = "done"
        /\ req[q].resp = Success("Profile deleted successfully")
        /\ req[q].email = req[p].email

\* C9: when a concurrent delete for the same email has removed the document an
\* update looked up before the update's write, the write matches nothing, the
\* update answers "user not found for update" and no document has the email
\* afterwards; an update for an email with no document at its lookup answers
\* "user not found" and leaves the collection as it was; no step of an update
\* changes the number of documents.
C9_UpdateNeverCreates ==
    [][\A p \in Procs :
         /\ (req[p].pc = "update_write" /\ req'[p].pc = "done"
                /\ LookedUpRemoved(p) /\ DeleteAnswered(p)) =>
               /\ req'[p].resp = Failure("user not found for update")
               /\ ~HasRecord(users', req[p].email)
         /\ (req[p].pc = "update_find" /\ req'[p].pc # "update_find"
                /\ ~HasRecord(users, req[p].email)) =>
               /\ req'[p].resp = Failure("user not found")
               /\ users' = users
         /\ (req[p].pc \in {"update_find", "update_write"} /\ req'[p] # req[p]) =>
               Len(users') = Len(users)
      ]_vars

\* The file parts of a body that carry a file name.
NamedFiles(f) == {i \in 1..Len(f.parts) : f.parts[i].isFile /\ f.parts[i].filename # ""}

\* Every named file part is in the store, with the content of the last part
\* of that name.
FilesStored(f, store) ==
    \A i \in NamedFiles(f) :
        /\ f.parts[i].filename \in DOMAIN store
        /\ (\A j \in NamedFiles(f) : f.parts[j].filename = f.parts[i].filename => j <= i)
              => store[f.parts[i].filename] = f.parts[i].content

\* C10: when signup or update has read a form body, every file part with a
\* file name is in the upload store under that name; a request that fails
\* leaves the collection as it was, and no step removes a stored file.
C10_FilesWritten ==
    [][\A p \in Procs :
         /\ (req[p].pc = "idle" /\ req'[p].pc # "idle") =>
               /\ \A f \in SignupRequests :
                     ((IsMultipart(f.ctype) \/ IsUrlEncoded(f.ctype)) /\ SignupReceive(p, f))
                        => FilesStored(f, uploads')
               /\ \A f \in UpdateRequests :
                     (IsMultipart(f.ctype) /\ UpdateReceive(p, f))
                        => FilesStored(f, uploads')
         /\ (req'[p].pc = "done" /\ req[p].pc # "done"
                /\ (req'[p].resp.status = "failure" \/ req'[p].resp.error # ""
                       \/ req'[p].resp.raised)) => users' = users
         /\ DOMAIN uploads \subseteq DOMAIN uploads'
      ]_vars

====
